---- MODULE Spec2Model ----
(***************************************************************************)
(* Model of the yt-dlp GUI core: option translation (gui/downloader.py),   *)
(* the worker that runs one download (run_download._thread and the Qt      *)
(* DownloadThread.run), and the two presentation layers (gui/tkapp.py,     *)
(* gui/qtapp.py) as far as they start, cancel and observe a download.      *)
(*                                                                         *)
(* A Python str is modelled as a sequence of symbols.  A symbol is a TLA+  *)
(* string: one character where the code inspects characters (" ", ",",     *)
(* "\n", "'"), or a whole literal where the code only passes it on         *)
(* ("bestaudio/best").  The empty str is << >>.                            *)
(***************************************************************************)
EXTENDS Integers, Sequences, FiniteSets, TLC

VARIABLES
    ui,              \* which presentation layer runs: "tk" or "qt" (gui/__main__.py)
    nruns,           \* number of workers launched so far
    pc,              \* pc[r]: position of worker r in _thread / DownloadThread.run
    exc,             \* exc[r]: the exception in flight or caught in worker r
    is_set,          \* is_set[r]: state of the threading.Event of run r
    engineHeld,      \* engineHeld[r]: worker r is inside `with YoutubeDL(...)`
    settings,        \* settings[r]: the DownloadSettings captured by worker r
    produced,        \* produced[r]: the logger/hook calls the engine made in run r
                     \*   (for a hook call: whether the flag was set when it began)
    calls,           \* calls[r]: the callback invocations worker r made, in order
    queue,           \* Tk: self.queue; Qt: the queued signal deliveries
    handled,         \* items the interactive thread has handled for the current run
    start_btn,       \* state of the start button: "normal" or "disabled"
    cancel_btn,      \* state of the cancel button
    cancel_event,    \* Tk: self.cancel_event; Qt: self._thread.cancel_event (0 = None)
    worker,          \* Tk: self.worker; Qt: self._thread (0 = None)
    lastStart,       \* what the latest start request did
    lateCancel,      \* a cancel request set the flag of a run that had already reported
    t_urls,          \* translation harness: the urls argument of build_ydl_options
    t_settings,      \* translation harness: the settings argument
    t_result,        \* translation harness: the result of build_ydl_options
    p_status,        \* summarizer harness: the status dict of a progress event
    p_summary        \* summarizer harness: the result of summarize_progress

vars == << ui, nruns, pc, exc, is_set, engineHeld, settings, produced, calls,
           queue, handled, start_btn, cancel_btn, cancel_event, worker,
           lastStart, lateCancel, t_urls, t_settings, t_result, p_status,
           p_summary >>

mainVars == << ui, nruns, pc, exc, is_set, engineHeld, settings, produced, calls,
               queue, handled, start_btn, cancel_btn, cancel_event, worker,
               lastStart, lateCancel >>

harnessVars == << t_urls, t_settings, t_result, p_status, p_summary >>

(***************************************************************************)
(* Bounds of the model.                                                    *)
(***************************************************************************)
MaxRuns == 2        \* workers launched in one behaviour
MaxEvents == 2      \* logger/hook calls the engine makes in one download
MaxUrlLen == 2      \* symbols in the URL text typed by the user / in one url
MaxUrls == 2        \* entries of the urls argument in the translation harness
MaxFormatLen == 2    \* symbols in the custom format typed by the user
MaxBytes == 3        \* largest byte count in a progress event

Runs == 1..MaxRuns

(***************************************************************************)
(* Python str operations.                                                  *)
(***************************************************************************)
Whitespace == {" ", "\n"}

None == << "<None>" >>

Truthy(x) == x # None /\ x # << >>

RECURSIVE LStrip(_)
LStrip(s) ==
    IF s # << >> /\ Head(s) \in Whitespace THEN LStrip(Tail(s)) ELSE s

RECURSIVE RStrip(_)
RStrip(s) ==
    IF s # << >> /\ s[Len(s)] \in Whitespace
    THEN RStrip(SubSeq(s, 1, Len(s) - 1))
    ELSE s

Strip(s) == RStrip(LStrip(s))

Replace(s, old, new) ==
    [i \in 1..Len(s) |-> IF s[i] = old THEN new ELSE s[i]]

RECURSIVE SplitLinesFrom(_, _)
SplitLinesFrom(s, cur) ==
    IF s = << >>
    THEN (IF cur = << >> THEN << >> ELSE << cur >>)
    ELSE IF Head(s) = "\n"
         THEN << cur >> \o SplitLinesFrom(Tail(s), << >>)
         ELSE SplitLinesFrom(Tail(s), Append(cur, Head(s)))

SplitLines(s) == SplitLinesFrom(s, << >>)

NonEmpty(s) == s # << >>

Min(S) == CHOOSE x \in S : \A y \in S : x <= y

StripAll(list) == [i \in 1..Len(list) |-> Strip(list[i])]

\* All sequences over alphabet of length at most n.
SeqsUpTo(alphabet, n) == UNION {[1..k -> alphabet] : k \in 0..n}

(***************************************************************************)
(* DownloadSettings and the option translator (gui/downloader.py).         *)
(***************************************************************************)
QualityLabels == {"Best available", "2160p", "1440p", "1080p", "720p", "480p"}

\* Mutant: the entry of "720p" holds the expression of "1080p".
QUALITY_FORMATS_miscapped ==
    [q \in QualityLabels |->
        CASE q = "Best available" -> None
          [] q = "2160p" -> << "bv*[height<=2160]+ba/b[height<=2160]" >>
          [] q = "1440p" -> << "bv*[height<=1440]+ba/b[height<=1440]" >>
          [] q = "1080p" -> << "bv*[height<=1080]+ba/b[height<=1080]" >>
          [] q = "720p" -> << "bv*[height<=1080]+ba/b[height<=1080]" >>
          [] q = "480p" -> << "bv*[height<=480]+ba/b[height<=480]" >>]

QUALITY_FORMATS ==
    [q \in QualityLabels |->
        CASE q = "Best available" -> None
          [] q = "2160p" -> << "bv*[height<=2160]+ba/b[height<=2160]" >>
          [] q = "1440p" -> << "bv*[height<=1440]+ba/b[height<=1440]" >>
          [] q = "1080p" -> << "bv*[height<=1080]+ba/b[height<=1080]" >>
          [] q = "720p" -> << "bv*[height<=720]+ba/b[height<=720]" >>
          [] q = "480p" -> << "bv*[height<=480]+ba/b[height<=480]" >>]

\* dict.get: None for a key the table does not hold.
QualityGet(q) == IF q \in DOMAIN QUALITY_FORMATS THEN QUALITY_FORMATS[q] ELSE None

\* `a or b` of Python.
Or(a, b) == IF Truthy(a) THEN a ELSE b

\* Mutant: the custom format used as typed, without trimming.
_build_format_nostrip(s) ==
    IF s.format_choice = "audio" THEN << "bestaudio/best" >>
    ELSE IF s.format_choice = "custom" THEN Or(s.custom_format, None)
    ELSE Or(QualityGet(s.quality), << "bv*+ba/best" >>)

_build_format(s) ==
    IF s.format_choice = "audio" THEN << "bestaudio/best" >>
    ELSE IF s.format_choice = "custom" THEN Or(Strip(s.custom_format), None)
    ELSE Or(QualityGet(s.quality), << "bv*+ba/best" >>)

\* shlex.split in POSIX mode restricted to whitespace and the single quote:
\* whitespace ends a token, a quote opens or closes a quoted part, and the
\* input ending inside a quoted part is ValueError("No closing quotation").
RECURSIVE ShlexFrom(_, _, _, _)
ShlexFrom(s, cur, inTok, inQuote) ==
    IF s = << >>
    THEN IF inQuote
         THEN [ok |-> FALSE, tokens |-> << >>]
         ELSE [ok |-> TRUE, tokens |-> IF inTok THEN << cur >> ELSE << >>]
    ELSE LET c == Head(s)
             rest == Tail(s)
         IN  IF inQuote
             THEN IF c = "'"
                  THEN ShlexFrom(rest, cur, TRUE, FALSE)
                  ELSE ShlexFrom(rest, Append(cur, c), TRUE, TRUE)
             ELSE IF c = "'"
                  THEN ShlexFrom(rest, cur, TRUE, TRUE)
                  ELSE IF c \in Whitespace
                       THEN IF inTok
                            THEN LET r == ShlexFrom(rest, << >>, FALSE, FALSE)
                                 IN  [ok |-> r.ok,
                                      tokens |-> IF r.ok THEN << cur >> \o r.tokens
                                                 ELSE << >>]
                            ELSE ShlexFrom(rest, << >>, FALSE, FALSE)
                       ELSE ShlexFrom(rest, Append(cur, c), TRUE, FALSE)

ShlexSplit(s) == ShlexFrom(s, << >>, FALSE, FALSE)

\* The args built before the advanced options are appended (lines 87-99).
FixedArgs(s) ==
    (IF Truthy(s.output_dir) THEN << << "-P" >>, s.output_dir >> ELSE << >>)
    \o (IF Truthy(_build_format(s)) THEN << << "-f" >>, _build_format(s) >> ELSE << >>)
    \o (IF s.subtitles
        THEN << << "--write-subs" >>, << "--sub-langs" >>, << "all" >> >>
        ELSE << >>)
    \o (IF s.embed_metadata
        THEN << << "--add-metadata" >>, << "--embed-thumbnail" >> >>
        ELSE << >>)

\* The url filter of line 107: `[url for url in urls if url]`.
FilterUrls(urls) == SelectSeq(urls, NonEmpty)

\* Mutant: no check that a url is left after filtering.
_parse_cli_args_nocheck(urls, s) ==
    LET adv == IF Truthy(s.advanced_options)
               THEN ShlexSplit(s.advanced_options)
               ELSE [ok |-> TRUE, tokens |-> << >>]
    IN  IF ~adv.ok
        THEN [ok |-> FALSE, args |-> << >>, urls |-> << >>,
              err |-> << "Advanced options error: ", "No closing quotation" >>]
        ELSE [ok |-> TRUE, args |-> FixedArgs(s) \o adv.tokens,
              urls |-> FilterUrls(urls), err |-> << >>]

_parse_cli_args(urls, s) ==
    LET adv == IF Truthy(s.advanced_options)
               THEN ShlexSplit(s.advanced_options)
               ELSE [ok |-> TRUE, tokens |-> << >>]
        parsed_urls == FilterUrls(urls)
    IN  IF ~adv.ok
        THEN [ok |-> FALSE, args |-> << >>, urls |-> << >>,
              err |-> << "Advanced options error: ", "No closing quotation" >>]
        ELSE IF parsed_urls = << >>
             THEN [ok |-> FALSE, args |-> << >>, urls |-> << >>,
                   err |-> << "At least one URL is required." >>]
             ELSE [ok |-> TRUE, args |-> FixedArgs(s) \o adv.tokens,
                   urls |-> parsed_urls, err |-> << >>]

\* The engine's option parser, yt_dlp.parse_options: it exits (SystemExit) on an
\* option it does not know, raises on a value it cannot use, and otherwise
\* returns the options and the url list, each url trimmed.
ExitOptions == {<< "--bad-flag" >>}
RaiseOptions == {<< "--bad-value" >>}

parse_options(args, urls) ==
    IF \E i \in 1..Len(args) : args[i] \in ExitOptions
    THEN [ok |-> FALSE, kind |-> "SystemExit", urls |-> << >>, opts |-> << >>]
    ELSE IF \E i \in 1..Len(args) : args[i] \in RaiseOptions
         THEN [ok |-> FALSE, kind |-> "Exception", urls |-> << >>, opts |-> << >>]
         ELSE [ok |-> TRUE, kind |-> "", urls |-> StripAll(urls), opts |-> args]

\* Mutant: build_ydl_options returns without calling status_callback.
StatusMessages_none == << >>

\* What status_callback receives from build_ydl_options (line 143); the
\* ellipsis character of the source is written "...".
StatusMessages == << << "Preparing download..." >> >>

\* Lines 123-144, given the result p of _parse_cli_args.
BuildFromArgs(p) ==
    IF ~p.ok
    THEN [ok |-> FALSE, urls |-> << >>, opts |-> << >>, err |-> p.err,
          status |-> << >>]
    ELSE LET e == parse_options(p.args, p.urls)
         IN  IF ~e.ok
             THEN [ok |-> FALSE, urls |-> << >>, opts |-> << >>,
                   err |-> IF e.kind = "SystemExit"
                           THEN << "no such option" >>
                           ELSE << "Unable to parse options: ", "bad value" >>,
                   status |-> << >>]
             ELSE [ok |-> TRUE, urls |-> e.urls, opts |-> e.opts, err |-> << >>,
                   status |-> StatusMessages]

build_ydl_options(urls, s) ==
    CHOOSE b \in {BuildFromArgs(p) : p \in {_parse_cli_args(urls, s)}} : TRUE

\* Line 154 of execute_download: split on commas and newlines, trim, drop empties.
NormalizeUrls(text) ==
    SelectSeq(StripAll(SplitLines(Replace(text, ",", "\n"))), NonEmpty)

(***************************************************************************)
(* The progress summarizer, summarize_progress (gui/downloader.py).        *)
(*                                                                         *)
(* A number of the status dict is << n >>, and << >> stands for None or a  *)
(* key the dict does not hold (dict.get gives None for both).  percent is  *)
(* the exact quotient << numerator, denominator >> in lowest terms with a   *)
(* positive denominator, or << >> for None.                                *)
(***************************************************************************)
NoNumber == << >>

\* The truth value of a number or None: None and 0 are false.
TruthyNumber(x) == x # NoNumber /\ x[1] # 0

\* `a or b` of Python on numbers.
OrNumber(a, b) == IF TruthyNumber(a) THEN a ELSE b

Abs(n) == IF n < 0 THEN -n ELSE n

RECURSIVE Gcd(_, _)
Gcd(a, b) == IF b = 0 THEN a ELSE Gcd(b, a % b)

\* The quotient n / d, d # 0.
Quotient(n, d) ==
    LET g == Gcd(Abs(n), Abs(d))
        sign == IF d < 0 THEN -1 ELSE 1
    IN  << sign * (n \div g), sign * (d \div g) >>

\* a <= b for quotients with positive denominators.
QuotientLeq(a, b) == a[1] * b[2] <= b[1] * a[2]

QuotientMax(a, b) == IF QuotientLeq(a, b) THEN b ELSE a

QuotientMin(a, b) == IF QuotientLeq(a, b) THEN a ELSE b

\* Mutant: the percentage not limited to 100.
Percent_unclamped(downloaded, total) ==
    QuotientMax(<< 0, 1 >>, Quotient(downloaded * 100, total))

\* Line 75: max(0.0, min(100.0, downloaded / total * 100)).
Percent(downloaded, total) ==
    QuotientMax(<< 0, 1 >>,
                QuotientMin(<< 100, 1 >>, Quotient(downloaded * 100, total)))

summarize_progress(status) ==
    LET total == OrNumber(OrNumber(status.total_bytes, status.total_bytes_estimate),
                          << 0 >>)
        downloaded == OrNumber(status.downloaded_bytes, << 0 >>)
    IN  [status |-> status.status,
         filename |-> Or(status.filename, status.title),
         percent |-> IF TruthyNumber(total)
                     THEN Percent(downloaded[1], total[1])
                     ELSE NoNumber,
         speed |-> status.speed,
         eta |-> status.eta]

\* The status dicts of the harness: byte counts absent, zero, positive and
\* negative, a file name or the title of info_dict, speed and eta known or not.
ByteCounts == {NoNumber} \cup {<< n >> : n \in (-1)..MaxBytes}

StatusDicts ==
    [status : {"downloading", "finished"},
     filename : {None, << "v.mp4" >>},
     title : {<< "T" >>},
     downloaded_bytes : ByteCounts,
     total_bytes : ByteCounts,
     total_bytes_estimate : ByteCounts,
     speed : {NoNumber, << 1024 >>},
     eta : {NoNumber, << 5 >>}]

NoStatus ==
    [status |-> "", filename |-> None, title |-> None,
     downloaded_bytes |-> NoNumber, total_bytes |-> NoNumber,
     total_bytes_estimate |-> NoNumber, speed |-> NoNumber, eta |-> NoNumber]

NotSummarized == [done |-> FALSE, summary |-> << >>]

SummarizerIdle ==
    /\ p_status = NoStatus
    /\ p_summary = NotSummarized

SummarizerInit ==
    /\ p_status \in StatusDicts
    /\ p_summary = NotSummarized

\* summarize_progress applied to the status dict.
Summarize ==
    /\ ~p_summary.done
    /\ p_summary' = [done |-> TRUE, summary |-> summarize_progress(p_status)]
    /\ UNCHANGED << t_urls, t_settings, t_result, p_status >>

(***************************************************************************)
(* Inputs.                                                                 *)
(***************************************************************************)
UrlAlphabet == {"a", " ", ","}

UrlTexts == SeqsUpTo(UrlAlphabet, MaxUrlLen)

AdvancedInputs ==
    { << >>, << "--limit-rate", "\n", "10K" >>, << "'", "x" >>,
      << "--bad-flag" >>, << "--bad-value" >> }

\* The settings the presentation layers build from the widgets' initial values
\* and the typed url text and advanced options.
WidgetSettings(urls, advanced) ==
    [urls |-> urls, output_dir |-> << "/cwd" >>, format_choice |-> "best",
     custom_format |-> << >>, quality |-> "Best available",
     subtitles |-> FALSE, embed_metadata |-> FALSE,
     advanced_options |-> advanced]

NoSettings == WidgetSettings(<< >>, << >>)

(***************************************************************************)
(* Translation harness: build_ydl_options applied to an arbitrary urls     *)
(* argument, as a direct caller (the test suite) applies it.                *)
(***************************************************************************)
HarnessUrlAlphabet == {"a", " "}

HarnessUrlLists == SeqsUpTo(SeqsUpTo(HarnessUrlAlphabet, MaxUrlLen), MaxUrls)

NotRun == [done |-> FALSE, ok |-> FALSE, urls |-> << >>, args |-> << >>,
           err |-> << >>]

TranslatorIdle ==
    /\ t_urls = << >>
    /\ t_settings = NoSettings
    /\ t_result = NotRun

HarnessIdle ==
    /\ TranslatorIdle
    /\ SummarizerIdle

HarnessInit ==
    /\ t_urls \in HarnessUrlLists
    /\ t_settings \in {WidgetSettings(<< "a" >>, adv) : adv \in AdvancedInputs}
    /\ t_result = NotRun
    /\ SummarizerIdle

HarnessBuild ==
    /\ ~t_result.done
    /\ LET b == build_ydl_options(t_urls, t_settings)
       IN  t_result' = [done |-> TRUE, ok |-> b.ok, urls |-> b.urls,
                        args |-> b.opts, err |-> b.err]
    /\ UNCHANGED << t_urls, t_settings, p_status, p_summary >>

\* The values of the settings' fields: the format choices and quality labels
\* the widgets offer and a label they do not, typed custom formats, both
\* values of the check boxes, an output directory or none.
FormatChoices == {"best", "audio", "custom"}

QualityInputs == QualityLabels \cup {"144p"}

CustomFormats == SeqsUpTo({"f", " "}, MaxFormatLen)

OutputDirs == {<< >>, << "/cwd" >>}

FormatSettings ==
    [urls : {<< "a" >>}, output_dir : OutputDirs, format_choice : FormatChoices,
     custom_format : CustomFormats, quality : QualityInputs,
     subtitles : BOOLEAN, embed_metadata : BOOLEAN,
     advanced_options : AdvancedInputs]

FormatHarnessInit ==
    /\ t_urls = << << "a" >> >>
    /\ t_settings \in FormatSettings
    /\ t_result = NotRun
    /\ SummarizerIdle

\* _parse_cli_args called with the settings: the argument sequence it builds.
HarnessParse ==
    /\ ~t_result.done
    /\ LET p == _parse_cli_args(t_urls, t_settings)
       IN  t_result' = [done |-> TRUE, ok |-> p.ok, urls |-> p.urls,
                        args |-> p.args, err |-> p.err]
    /\ UNCHANGED << t_urls, t_settings, p_status, p_summary >>

(***************************************************************************)
(* The worker: run_download._thread (gui/downloader.py) and                *)
(* DownloadThread.run (gui/qtapp.py), which have the same body, running    *)
(* execute_download with the callbacks of the presentation layer.          *)
(*                                                                         *)
(* pc[r]:  "idle"      no worker r yet                                     *)
(*         "start"     thread started, execute_download not yet entered    *)
(*         "built"     build_ydl_options returned                          *)
(*         "download"  inside `with YoutubeDL`, in ydl.download            *)
(*         "forward"   inside the hook, past the flag check                *)
(*         "leave"     leaving the with block (returning or unwinding)     *)
(*         "except"    out of execute_download, completion not yet called  *)
(*         "done"      completion callback returned, thread still alive    *)
(*         "dead"      thread ended                                        *)
(*         "collected" thread ended and no longer referenced               *)
(***************************************************************************)
NoExc == << "none", << >> >>

Live == {"start", "built", "download", "forward", "leave", "except", "done"}

\* threading.Thread.is_alive / a QThread that has not finished.
is_alive(r) == pc[r] \in Live

\* Mutant: one Event object shared by all runs instead of a new one per run.
NewEvent_shared == nruns > 0 /\ is_set[nruns]

\* threading.Event(): a new flag is unset.
NewEvent == FALSE

\* UILogger: debug and info pass the message on, warning and error prefix it.
LogLevels == {"debug", "warning", "error"}

UILogger(level, msg) ==
    CASE level = "debug" -> << msg >>
      [] level = "warning" -> << "WARNING: ", msg >>
      [] level = "error" -> << "ERROR: ", msg >>

\* The items the callbacks of the presentation layer hand to the interactive
\* thread: Tk puts these tuples on self.queue, Qt emits the signal of that name.
StatusItem(msg) == << "status", msg >>
LogItem(msg) == << "log", msg >>
\* The n-th status dict of the run, summarized by summarize_progress.
ProgressItem(n) == << "progress", << "summary", ToString(n) >> >>
CompleteItem(success, msg) == << "complete", success, msg >>

\* Mutant: a last-in-first-out queue.
Put_lifo(q, items) == items \o q

\* queue.Queue.put / a queued signal emission: first in, first out.
Put(q, items) == q \o items

\* Mutant: a hook that forwards without looking at the flag.
hook_nocheck(flagSet) == "forward"

\* The hook of build_ydl_options: raise when the flag is set, else forward.
hook(flagSet) == IF flagSet THEN "raise" ELSE "forward"

\* Mutant: the engine closed after download returns, not by a with statement.
WithExit_leak(held, e) == held /\ e # NoExc

\* Leaving `with YoutubeDL(ydl_opts) as ydl`: __exit__ closes the engine on
\* every path; the result is whether the engine is still held.
WithExit(held, e) == FALSE

\* Mutant: the callback also called in a finally clause after a failure.
Completion_twice(e) ==
    CASE e[1] = "none" -> << CompleteItem(TRUE, << "Completed" >>) >>
      [] e[1] = "DownloadCancelled" -> << CompleteItem(FALSE, << "Cancelled" >>) >>
      [] OTHER -> << CompleteItem(FALSE, e[2]), CompleteItem(FALSE, e[2]) >>

\* Mutant: no except clause for errors, the thread dies without reporting.
Completion_swallow(e) ==
    CASE e[1] = "none" -> << CompleteItem(TRUE, << "Completed" >>) >>
      [] e[1] = "DownloadCancelled" -> << CompleteItem(FALSE, << "Cancelled" >>) >>
      [] OTHER -> << >>

\* Mutant: every exception reported by the clause of DownloadCancelled.
Completion_all_cancelled(e) ==
    CASE e[1] = "none" -> << CompleteItem(TRUE, << "Completed" >>) >>
      [] OTHER -> << CompleteItem(FALSE, << "Cancelled" >>) >>

\* The three ends of _thread: what completion_callback receives.
Completion(e) ==
    CASE e[1] = "none" -> << CompleteItem(TRUE, << "Completed" >>) >>
      [] e[1] = "DownloadCancelled" -> << CompleteItem(FALSE, << "Cancelled" >>) >>
      [] OTHER -> << CompleteItem(FALSE, e[2]) >>

\* A callback invocation by worker r: recorded, and handed to the interactive thread.
Emit(r, items) ==
    /\ calls' = [calls EXCEPT ![r] = @ \o items]
    /\ queue' = Put(queue, items)

uiVars == << ui, nruns, handled, start_btn, cancel_btn, cancel_event, worker,
             lastStart, lateCancel >>

\* execute_download up to the with statement: normalize the urls, translate.
Translate(r) ==
    /\ pc[r] = "start"
    /\ \E b \in {build_ydl_options(NormalizeUrls(settings[r].urls), settings[r])} :
           /\ Emit(r, [i \in 1..Len(b.status) |-> StatusItem(b.status[i])])
           /\ pc' = [pc EXCEPT ![r] = IF b.ok THEN "built" ELSE "except"]
           /\ exc' = [exc EXCEPT ![r] = IF b.ok THEN NoExc
                                         ELSE << "ValueError", b.err >>]
    /\ settings' = [settings EXCEPT ![r] = NoSettings]
    /\ UNCHANGED << is_set, engineHeld, produced >>
    /\ UNCHANGED << uiVars, harnessVars >>

\* `with YoutubeDL(ydl_opts) as ydl:` entered, ydl.download called.
Acquire(r) ==
    /\ pc[r] = "built"
    /\ pc' = [pc EXCEPT ![r] = "download"]
    /\ engineHeld' = [engineHeld EXCEPT ![r] = TRUE]
    /\ UNCHANGED << exc, is_set, settings, produced, calls, queue >>
    /\ UNCHANGED << uiVars, harnessVars >>

\* The engine calls a method of the UILogger.
EngineLog(r, level) ==
    /\ pc[r] = "download"
    /\ Len(produced[r]) < MaxEvents
    /\ LET n == Len(produced[r]) + 1
       IN  /\ produced' = [produced EXCEPT ![r] =
                  Append(@, [kind |-> level, flag |-> FALSE])]
           /\ Emit(r, << LogItem(UILogger(level, ToString(n))) >>)
    /\ UNCHANGED << pc, exc, is_set, engineHeld, settings >>
    /\ UNCHANGED << uiVars, harnessVars >>

\* The engine calls the progress hook, which reads the flag (lines 133-134).
HookCheck(r) ==
    /\ pc[r] = "download"
    /\ Len(produced[r]) < MaxEvents
    /\ produced' = [produced EXCEPT ![r] =
           Append(@, [kind |-> "progress", flag |-> is_set[r]])]
    /\ IF hook(is_set[r]) = "raise"
       THEN /\ pc' = [pc EXCEPT ![r] = "leave"]
            /\ exc' = [exc EXCEPT ![r] = << "DownloadCancelled", << "Cancelled" >> >>]
       ELSE /\ pc' = [pc EXCEPT ![r] = "forward"]
            /\ exc' = exc
    /\ UNCHANGED << is_set, engineHeld, settings, calls, queue >>
    /\ UNCHANGED << uiVars, harnessVars >>

\* The hook forwards the status to progress_callback (line 135).
HookForward(r) ==
    /\ pc[r] = "forward"
    /\ Emit(r, << ProgressItem(Len(produced[r])) >>)
    /\ pc' = [pc EXCEPT ![r] = "download"]
    /\ UNCHANGED << exc, is_set, engineHeld, settings, produced >>
    /\ UNCHANGED << uiVars, harnessVars >>

\* ydl.download returns.
EngineReturn(r) ==
    /\ pc[r] = "download"
    /\ pc' = [pc EXCEPT ![r] = "leave"]
    /\ UNCHANGED << exc, is_set, engineHeld, settings, produced, calls, queue >>
    /\ UNCHANGED << uiVars, harnessVars >>

\* What ydl.download raises by itself: an error of the engine.  The
\* cancellation signal is raised inside a download by the hook alone.
EngineFailures == {<< "DownloadError", << "ERROR: download failed" >> >>}

\* ydl.download raises an error of its own.
EngineRaise(r) ==
    /\ pc[r] = "download"
    /\ pc' = [pc EXCEPT ![r] = "leave"]
    /\ \E e \in EngineFailures : exc' = [exc EXCEPT ![r] = e]
    /\ UNCHANGED << is_set, engineHeld, settings, produced, calls, queue >>
    /\ UNCHANGED << uiVars, harnessVars >>

\* The with block is left, by return or by the exception in flight.
LeaveWith(r) ==
    /\ pc[r] = "leave"
    /\ engineHeld' = [engineHeld EXCEPT ![r] = WithExit(@, exc[r])]
    /\ pc' = [pc EXCEPT ![r] = "except"]
    /\ UNCHANGED << exc, is_set, settings, produced, calls, queue >>
    /\ UNCHANGED << uiVars, harnessVars >>

\* Lines 172-176: the completion callback, by the way execute_download ended.
Complete(r) ==
    /\ pc[r] = "except"
    /\ Emit(r, Completion(exc[r]))
    /\ pc' = [pc EXCEPT ![r] = "done"]
    /\ UNCHANGED << exc, is_set, engineHeld, settings, produced >>
    /\ UNCHANGED << uiVars, harnessVars >>

\* The thread function returns and the thread ends.
ThreadExit(r) ==
    /\ pc[r] = "done"
    /\ pc' = [pc EXCEPT ![r] = "dead"]
    /\ UNCHANGED << exc, is_set, engineHeld, settings, produced, calls, queue >>
    /\ UNCHANGED << uiVars, harnessVars >>

WorkerStep(r) ==
    \/ Translate(r)
    \/ Acquire(r)
    \/ \E level \in LogLevels : EngineLog(r, level)
    \/ HookCheck(r)
    \/ HookForward(r)
    \/ EngineReturn(r)
    \/ EngineRaise(r)
    \/ LeaveWith(r)
    \/ Complete(r)
    \/ ThreadExit(r)

(***************************************************************************)
(* The presentation layers (gui/tkapp.py TkGui, gui/qtapp.py MainWindow).  *)
(* Handlers run on the one interactive thread, so each is one action.      *)
(***************************************************************************)
\* Mutant: the start button is left enabled while a download runs.
_set_running_start_enabled(running) ==
    [start |-> "normal",
     cancel |-> IF running THEN "normal" ELSE "disabled"]

\* _set_running: the states of the start and the cancel button.
_set_running(running) ==
    [start |-> IF running THEN "disabled" ELSE "normal",
     cancel |-> IF running THEN "normal" ELSE "disabled"]

\* The guard that opens _start_download: Tk line 117, Qt line 165.
Busy ==
    IF ui = "tk" THEN worker # 0 /\ is_alive(worker) ELSE worker # 0

\* At a launch the handles of the previous run are overwritten (Tk) or were
\* set to None (Qt), so an ended worker and its flag are no longer referenced.
Renew(f, r, new, blank) ==
    [q \in Runs |-> IF q = r THEN new ELSE IF pc[q] = "dead" THEN blank ELSE f[q]]

\* run_download (Tk) / DownloadThread(settings) ... start() (Qt): a new flag,
\* a new worker, the handles stored, the buttons switched.
Launch(s) ==
    /\ nruns < MaxRuns
    /\ LET r == nruns + 1
       IN  /\ nruns' = r
           /\ pc' = Renew(pc, r, "start", "collected")
           /\ exc' = Renew(exc, r, NoExc, NoExc)
           /\ is_set' = Renew(is_set, r, NewEvent, FALSE)
           /\ engineHeld' = Renew(engineHeld, r, FALSE, FALSE)
           /\ settings' = Renew(settings, r, s, NoSettings)
           /\ produced' = Renew(produced, r, << >>, << >>)
           /\ calls' = Renew(calls, r, << >>, << >>)
           /\ cancel_event' = r
           /\ worker' = r
    /\ handled' = << >>
    /\ start_btn' = _set_running(TRUE).start
    /\ cancel_btn' = _set_running(TRUE).cancel
    /\ lastStart' = "launched"
    /\ UNCHANGED << ui, queue, lateCancel >>

Rejected(why) ==
    /\ lastStart' = why
    /\ UNCHANGED << ui, nruns, pc, exc, is_set, engineHeld, settings, produced,
                    calls, queue, handled, start_btn, cancel_btn, cancel_event,
                    worker, lateCancel >>

\* _start_download; the url text and the advanced options are what the user
\* has typed into the two text widgets.
_start_download ==
    IF Busy
    THEN Rejected("busy")
    ELSE \E text \in UrlTexts, advanced \in AdvancedInputs :
            IF Strip(text) = << >>
            THEN Rejected("no url")
            ELSE Launch(WidgetSettings(Strip(text),
                                       Replace(Strip(advanced), "\n", " ")))

\* The user presses the start button; a disabled button does not call its command.
ClickStart ==
    /\ IF start_btn = "normal"
       THEN _start_download
       ELSE Rejected("disabled")
    /\ UNCHANGED harnessVars

\* The user presses the (enabled) cancel button: _cancel_download.
ClickCancel ==
    /\ cancel_btn = "normal"
    /\ IF cancel_event # 0
       THEN /\ is_set' = [is_set EXCEPT ![cancel_event] = TRUE]
            /\ lateCancel' = (lateCancel \/
                   (~is_set[cancel_event] /\ pc[cancel_event] \in {"done", "dead"}))
       ELSE UNCHANGED << is_set, lateCancel >>
    /\ UNCHANGED << ui, nruns, pc, exc, engineHeld, settings, produced, calls,
                    queue, handled, start_btn, cancel_btn, cancel_event, worker,
                    lastStart >>
    /\ UNCHANGED harnessVars

\* The interactive thread takes the next item: one get_nowait and
\* _handle_event of TkGui._process_queue, or one queued signal delivery of Qt
\* (_append_log, _update_status, _update_progress, _download_done).
\* _download_done waits for the thread (self._thread.wait(500)), which has
\* only to return from run, so it proceeds once the thread has ended.
HandleEvent ==
    /\ queue # << >>
    /\ (ui = "qt" /\ Head(queue)[1] = "complete" /\ worker # 0) => ~is_alive(worker)
    /\ queue' = Tail(queue)
    /\ handled' = Append(handled, Head(queue))
    /\ IF Head(queue)[1] = "complete"
       THEN /\ start_btn' = _set_running(FALSE).start
            /\ cancel_btn' = _set_running(FALSE).cancel
            /\ worker' = IF ui = "qt" THEN 0 ELSE worker
            /\ cancel_event' = IF ui = "qt" THEN 0 ELSE cancel_event
       ELSE UNCHANGED << start_btn, cancel_btn, worker, cancel_event >>
    /\ UNCHANGED << ui, nruns, pc, exc, is_set, engineHeld, settings, produced,
                    calls, lastStart, lateCancel >>
    /\ UNCHANGED harnessVars

(***************************************************************************)
(* Specifications.                                                         *)
(***************************************************************************)
MainInit ==
    /\ nruns = 0
    /\ pc = [r \in Runs |-> "idle"]
    /\ exc = [r \in Runs |-> NoExc]
    /\ is_set = [r \in Runs |-> FALSE]
    /\ engineHeld = [r \in Runs |-> FALSE]
    /\ settings = [r \in Runs |-> NoSettings]
    /\ produced = [r \in Runs |-> << >>]
    /\ calls = [r \in Runs |-> << >>]
    /\ queue = << >>
    /\ handled = << >>
    /\ start_btn = "normal"
    /\ cancel_btn = "disabled"
    /\ cancel_event = 0
    /\ worker = 0
    /\ lastStart = "none"
    /\ lateCancel = FALSE

Init ==
    /\ ui \in {"tk", "qt"}
    /\ MainInit
    /\ HarnessIdle

Next ==
    \/ ClickStart
    \/ ClickCancel
    \/ HandleEvent
    \/ \E r \in Runs : WorkerStep(r)

Spec == Init /\ [][Next]_vars

\* The worker thread is scheduled, the engine call ends, and the event loop
\* of the toolkit keeps running (Tk re-arms _process_queue every 100 ms).
FairSpec ==
    /\ Spec
    /\ WF_vars(\E r \in Runs : WorkerStep(r))
    /\ WF_vars(HandleEvent)

\* build_ydl_options called directly.
TranslateInit ==
    /\ ui = "tk"
    /\ MainInit
    /\ HarnessInit

TranslateNext == HarnessBuild /\ UNCHANGED mainVars

TranslateSpec == TranslateInit /\ [][TranslateNext]_vars

\* _parse_cli_args called directly, over the values of the settings.
FormatInit ==
    /\ ui = "tk"
    /\ MainInit
    /\ FormatHarnessInit

FormatNext == HarnessParse /\ UNCHANGED mainVars

FormatSpec == FormatInit /\ [][FormatNext]_vars

\* summarize_progress called directly, over the status dicts.
ProgressInit ==
    /\ ui = "tk"
    /\ MainInit
    /\ TranslatorIdle
    /\ SummarizerInit

ProgressNext == Summarize /\ UNCHANGED mainVars

ProgressSpec == ProgressInit /\ [][ProgressNext]_vars

(***************************************************************************)
(* Properties.                                                             *)
(***************************************************************************)
IsComplete(item) == item[1] = "complete"
IsStatus(item) == item[1] = "status"
IsProgress(item) == item[1] = "progress"
IsEvent(item) == item[1] \in {"log", "progress"}

CompleteCalls(r) == SelectSeq(calls[r], IsComplete)
StatusCalls(r) == SelectSeq(calls[r], IsStatus)
ProgressCalls(r) == SelectSeq(calls[r], IsProgress)

\* Worker r has made its last step that can call a callback.
Ended(r) == pc[r] \in {"done", "dead"}

\* Worker r exists and has not yet reached the end of its try statement.
Running(r) == pc[r] \in {"start", "built", "download", "forward", "leave", "except"}

CompleteHandled == \E i \in 1..Len(handled) : IsComplete(handled[i])

\* C1: a worker calls the completion callback exactly once, as its last
\* callback and not before its try statement ends: with (TRUE, "Completed")
\* exactly when execute_download returned, (FALSE, "Cancelled") exactly when
\* DownloadCancelled was raised, and (FALSE, message) for any other exception.
C1_ExactlyOneCompletion ==
    \A r \in Runs :
        /\ Len(CompleteCalls(r)) <= 1
        /\ Running(r) => CompleteCalls(r) = << >>
        /\ Ended(r) =>
              /\ Len(CompleteCalls(r)) = 1
              /\ IsComplete(calls[r][Len(calls[r])])
              /\ LET c == CompleteCalls(r)[1]
                 IN  /\ (exc[r][1] = "none") <=> (c = << "complete", TRUE, << "Completed" >> >>)
                     /\ (exc[r][1] = "DownloadCancelled")
                            <=> (c = << "complete", FALSE, << "Cancelled" >> >>)
                     /\ (exc[r][1] \notin {"none", "DownloadCancelled"})
                            => (c = << "complete", FALSE, exc[r][2] >>)

\* A run has ended in each of the three ways is too much for one state; the
\* witness is a cancelled run that ended while a cancel request was pending.
C1_Witness ==
    \E r \in Runs :
        /\ pc[r] = "dead"
        /\ exc[r][1] = "DownloadCancelled"
        /\ calls[r][Len(calls[r])] = << "complete", FALSE, << "Cancelled" >> >>

\* C2: under fair scheduling of the worker and of the event loop, every
\* launched worker comes to call the completion callback, and the running
\* state of the interface (start disabled, cancel enabled) is always left again.
C2_EventuallyCompleted ==
    /\ \A r \in Runs : (pc[r] = "start") ~> (Len(CompleteCalls(r)) = 1)
    /\ (start_btn = "disabled" /\ cancel_btn = "normal")
           ~> (start_btn = "normal" /\ cancel_btn = "disabled" /\ CompleteHandled)

C2_Witness ==
    /\ nruns = MaxRuns
    /\ start_btn = "normal"
    /\ cancel_btn = "disabled"
    /\ CompleteHandled
    /\ queue = << >>

\* What makes a translation fail, stated on the settings alone: the url text
\* holds nothing but separators and blanks, or the advanced options hold an
\* unclosed quote or an option the engine's parser refuses.
NoUsableUrl(s) == \A i \in 1..Len(s.urls) : s.urls[i] \in {" ", ",", "\n"}

RefusedAdvanced(s) ==
    s.advanced_options \in {<< "'", "x" >>, << "--bad-flag" >>, << "--bad-value" >>}

Untranslatable(s) == NoUsableUrl(s) \/ RefusedAdvanced(s)

\* C3 as stated: when the translation of the settings fails, no worker has
\* been launched, so no worker ever holds settings that cannot be translated.
C3_Original ==
    \A r \in Runs : pc[r] = "start" => ~Untranslatable(settings[r])

\* C3 amended: settings that cannot be translated are translated by the
\* worker that was launched for them; the step that translates them raises
\* ValueError before any callback is called and before the engine is acquired,
\* and the worker then reports (FALSE, message) through the completion
\* callback, as its only callback, without ever acquiring the engine.
C3_FailureOnWorker ==
    /\ [][\A r \in Runs :
            (pc[r] = "start" /\ pc'[r] # "start" /\ Untranslatable(settings[r]))
                => /\ pc'[r] = "except"
                   /\ exc'[r][1] = "ValueError"
                   /\ calls'[r] = << >>
                   /\ ~engineHeld'[r]]_vars
    /\ [](\A r \in Runs :
            exc[r][1] = "ValueError"
                => /\ pc[r] \in {"except", "done", "dead"}
                   /\ ~engineHeld[r]
                   /\ produced[r] = << >>
                   /\ calls[r] = IF pc[r] = "except" THEN << >>
                                 ELSE << << "complete", FALSE, exc[r][2] >> >>)

C3_Witness ==
    \E r \in Runs :
        /\ pc[r] = "dead"
        /\ exc[r] = << "ValueError", << "At least one URL is required." >> >>
        /\ handled = << << "complete", FALSE, << "At least one URL is required." >> >> >>

\* The hook calls of run r, by position in produced[r].
HookCalls(r) == {i \in 1..Len(produced[r]) : produced[r][i].kind = "progress"}

\* C4: a hook call that begins with the flag set is not forwarded to
\* progress_callback, is the last call the engine makes in that run, and ends
\* the run with (FALSE, "Cancelled"); so when the flag is set before the first
\* hook call, no progress event of the run is forwarded at all.  A hook call
\* that begins with the flag unset is forwarded.
C4_HookChecksFlag ==
    \A r \in Runs :
        /\ \A i \in HookCalls(r) :
              IF produced[r][i].flag
              THEN /\ ProgressItem(i) \notin {calls[r][k] : k \in 1..Len(calls[r])}
                   /\ i = Len(produced[r])
                   /\ pc[r] \in {"leave", "except", "done", "dead"}
                   /\ exc[r][1] = "DownloadCancelled"
                   /\ Ended(r) => calls[r][Len(calls[r])]
                                      = << "complete", FALSE, << "Cancelled" >> >>
              ELSE \/ ProgressItem(i) \in {calls[r][k] : k \in 1..Len(calls[r])}
                   \/ (i = Len(produced[r]) /\ pc[r] = "forward")
        /\ (\E i \in HookCalls(r) : produced[r][i].flag /\ i = Min(HookCalls(r)))
              => ProgressCalls(r) = << >>

\* The flag was set before the first progress event, the engine had logged
\* before, and the run ended cancelled without a progress event forwarded.
C4_Witness ==
    \E r \in Runs :
        /\ pc[r] = "dead"
        /\ Len(produced[r]) = 2
        /\ produced[r][2] = [kind |-> "progress", flag |-> TRUE]
        /\ ProgressCalls(r) = << >>
        /\ calls[r][Len(calls[r])] = << "complete", FALSE, << "Cancelled" >> >>

\* What the callbacks of run r must have received for the engine's calls:
\* every logger call and every hook call that began with the flag unset, in
\* the engine's order (a hook call still inside the hook is not yet due).
RECURSIVE Expected(_, _, _)
Expected(r, i, pending) ==
    IF i > Len(produced[r]) THEN << >>
    ELSE LET e == produced[r][i]
             item == IF e.kind = "progress" THEN ProgressItem(i)
                     ELSE LogItem(IF e.kind = "debug" THEN << ToString(i) >>
                                  ELSE IF e.kind = "warning"
                                       THEN << "WARNING: ", ToString(i) >>
                                       ELSE << "ERROR: ", ToString(i) >>)
         IN  (IF (e.kind = "progress" /\ e.flag) \/ (pending /\ i = Len(produced[r]))
              THEN << >> ELSE << item >>)
             \o Expected(r, i + 1, pending)

C6_EngineScoped ==
    \A r \in Runs :
        /\ engineHeld[r] => pc[r] \in {"download", "forward", "leave"}
        /\ pc[r] \in {"download", "forward"} => engineHeld[r]
        /\ CompleteCalls(r) # << >> => ~engineHeld[r]

\* The engine was acquired, download raised, and the engine was released.
C6_Witness ==
    \E r \in Runs :
        /\ pc[r] = "except"
        /\ exc[r][1] = "DownloadError"
        /\ produced[r] # << >>
        /\ ~engineHeld[r]

\* A download is active: the latest worker was started and the interactive
\* thread has not yet handled its completion.
Active == nruns > 0 /\ ~CompleteHandled

C8_Original ==
    \A r \in Runs : Ended(r) => Len(StatusCalls(r)) = 1

\* C8 amended: a run whose translation succeeds calls the status callback
\* exactly once, with "Preparing download...", as its first callback and
\* before the engine is acquired; a run whose translation fails never calls
\* it; no run calls it twice.
C8_StatusOnceBeforeEngine ==
    \A r \in Runs :
        /\ Len(StatusCalls(r)) <= 1
        /\ (pc[r] = "start" \/ exc[r][1] = "ValueError") => StatusCalls(r) = << >>
        /\ (\/ pc[r] \in {"built", "download", "forward", "leave"}
            \/ (pc[r] \in {"except", "done", "dead"} /\ exc[r][1] # "ValueError"))
              => /\ calls[r] # << >>
                 /\ calls[r][1] = << "status", << "Preparing download..." >> >>
                 /\ Len(StatusCalls(r)) = 1

\* The status message is out and the engine is not yet acquired.
C8_Witness ==
    \E r \in Runs :
        /\ pc[r] = "built"
        /\ calls[r] = << << "status", << "Preparing download..." >> >> >>
        /\ ~engineHeld[r]
        /\ produced[r] = << >>

\* C9: a cancel request does nothing but set the flag of the current run, and
\* nothing at all when that flag is already set; a flag once set stays set; a
\* run that has reported keeps its report and reports no second time whether
\* or not its flag is set afterwards; and every run starts with its flag unset.
C9_CancelIsIdempotent ==
    /\ [](\A r \in Runs : Len(CompleteCalls(r)) <= 1)
    /\ [][\A r \in Runs :
            /\ (CompleteCalls(r) # << >> /\ pc'[r] \in {"done", "dead"})
                  => calls'[r] = calls[r]
            /\ (pc[r] # "start" /\ pc'[r] = "start") => ~is_set'[r]
            /\ (is_set[r] /\ pc'[r] = pc[r]) => is_set'[r]]_vars
    /\ [][(is_set' # is_set /\ nruns' = nruns)
            => /\ cancel_event # 0
               /\ ~is_set[cancel_event]
               /\ is_set' = [is_set EXCEPT ![cancel_event] = TRUE]
               /\ UNCHANGED << pc, exc, engineHeld, calls, queue, handled,
                               start_btn, cancel_btn, cancel_event, worker >>]_vars

\* A flag was set after its run had reported, and the next run, started
\* afterwards, had a progress event forwarded and completed.
C9_Witness ==
    /\ lateCancel
    /\ nruns = 2
    /\ pc[2] = "dead"
    /\ ~is_set[2]
    /\ ProgressCalls(2) # << >>
    /\ calls[2][Len(calls[2])] = << "complete", TRUE, << "Completed" >> >>

\* C10: build_ydl_options, with advanced options that parse, fails with "At
\* least one URL is required." when no entry of urls is non-empty after
\* trimming, and otherwise returns the entries that are, in input order and
\* without an empty entry.
C10_Claim ==
    (t_result.done /\ ~RefusedAdvanced(t_settings)) =>
        IF \A i \in 1..Len(t_urls) : Strip(t_urls[i]) = << >>
        THEN /\ ~t_result.ok
             /\ t_result.err = << "At least one URL is required." >>
        ELSE /\ t_result.ok
             /\ \A i \in 1..Len(t_result.urls) : t_result.urls[i] # << >>
             /\ StripAll(t_result.urls) = SelectSeq(StripAll(t_urls), NonEmpty)

\* The format selectors of an argument sequence: the tokens that follow "-f".
Selectors(args) ==
    [k \in 1..Cardinality({i \in 1..Len(args) - 1 : args[i] = << "-f" >>}) |->
        args[1 + CHOOSE i \in 1..Len(args) - 1 :
                 /\ args[i] = << "-f" >>
                 /\ Cardinality({j \in 1..i : args[j] = << "-f" >>}) = k]]

HeightCap(q) ==
    CASE q = "2160p" -> << "bv*[height<=2160]+ba/b[height<=2160]" >>
      [] q = "1440p" -> << "bv*[height<=1440]+ba/b[height<=1440]" >>
      [] q = "1080p" -> << "bv*[height<=1080]+ba/b[height<=1080]" >>
      [] q = "720p" -> << "bv*[height<=720]+ba/b[height<=720]" >>
      [] q = "480p" -> << "bv*[height<=480]+ba/b[height<=480]" >>

Parsed == t_result.done /\ t_result.ok

\* C11 as stated: when format_choice is neither audio nor custom, the label
\* "Best available" adds no format flag to the argument sequence, and each
\* resolution cap label adds its height-capped expression.
C11_Original ==
    (Parsed /\ t_settings.format_choice \notin {"audio", "custom"}) =>
        /\ t_settings.quality = "Best available" => Selectors(t_result.args) = << >>
        /\ t_settings.quality \in QualityLabels \ {"Best available"}
              => Selectors(t_result.args) = << HeightCap(t_settings.quality) >>

\* C11 amended: when format_choice is neither audio nor custom, the argument
\* sequence holds exactly one format flag; its selector is the height-capped
\* expression of the table for a resolution cap label, and the fixed selector
\* "bv*+ba/best" for "Best available" and for a label the table does not hold.
C11_QualityLookup ==
    (Parsed /\ t_settings.format_choice \notin {"audio", "custom"}) =>
        Selectors(t_result.args) =
            IF t_settings.quality \in QualityLabels \ {"Best available"}
            THEN << HeightCap(t_settings.quality) >>
            ELSE << << "bv*+ba/best" >> >>

\* The argument sequence built for "Best available" holds the flag "-f"
\* followed by "bv*+ba/best", after the output directory.
C11_Witness ==
    /\ Parsed
    /\ t_settings.format_choice = "best"
    /\ t_settings.quality = "Best available"
    /\ t_settings.output_dir = << "/cwd" >>
    /\ SubSeq(t_result.args, 1, 4)
          = << << "-P" >>, << "/cwd" >>, << "-f" >>, << "bv*+ba/best" >> >>

\* A text that is empty or holds whitespace only.
Blank(text) == \A i \in 1..Len(text) : text[i] \in Whitespace

\* C12: with format_choice = audio the argument sequence holds the one format
\* selector "bestaudio/best", whatever quality and custom_format are; with
\* format_choice = custom and a blank custom_format it holds no format selector,
\* and the translation of the arguments fails for no other reason than advanced
\* options that cannot be tokenized.
C12_AudioAndBlankCustom ==
    t_result.done =>
        /\ (t_result.ok /\ t_settings.format_choice = "audio")
              => Selectors(t_result.args) = << << "bestaudio/best" >> >>
        /\ (t_settings.format_choice = "custom" /\ Blank(t_settings.custom_format))
              => /\ Selectors(t_result.args) = << >>
                 /\ ~t_result.ok
                       => /\ ShlexSplit(t_settings.advanced_options).ok = FALSE
                          /\ t_result.err[1] = "Advanced options error: "

\* A custom format of one space was translated without error into an argument
\* sequence that holds the output directory and no format flag.
C12_Witness ==
    /\ Parsed
    /\ t_settings.format_choice = "custom"
    /\ t_settings.custom_format = << " " >>
    /\ t_settings.quality = "720p"
    /\ t_settings.advanced_options = << >>
    /\ ~t_settings.subtitles
    /\ ~t_settings.embed_metadata
    /\ t_result.args = << << "-P" >>, << "/cwd" >> >>

\* The total size of a status dict that is known and not zero, the exact one
\* before the estimated one; << >> when there is none.
KnownTotal(status) ==
    IF status.total_bytes # << >> /\ status.total_bytes # << 0 >>
    THEN status.total_bytes
    ELSE IF status.total_bytes_estimate # << >>
            /\ status.total_bytes_estimate # << 0 >>
         THEN status.total_bytes_estimate
         ELSE << >>

DownloadedOf(status) ==
    IF status.downloaded_bytes = << >> THEN 0 ELSE status.downloaded_bytes[1]

\* C13: percent is downloaded / total * 100 limited to the range 0..100 when a
\* total size, exact or estimated, is known and not zero, and None otherwise;
\* so a total of 0 or absent with downloaded_bytes > 0 gives None, and a
\* downloaded count above the total gives 100.
C13_PercentClamped ==
    p_summary.done =>
        LET total == KnownTotal(p_status)
            d == DownloadedOf(p_status)
            pct == p_summary.summary.percent
        IN  IF total = << >>
            THEN pct = << >>
            ELSE LET t == total[1]
                     \* d / t * 100 compared with 0 and 100, without dividing
                     below == (t > 0 /\ d < 0) \/ (t < 0 /\ d > 0)
                     above == (t > 0 /\ d > t) \/ (t < 0 /\ d < t)
                 IN  /\ pct # << >>
                     /\ pct[2] > 0
                     /\ 0 <= pct[1] /\ pct[1] <= 100 * pct[2]
                     /\ below => pct = << 0, 1 >>
                     /\ above => pct = << 100, 1 >>
                     /\ (~below /\ ~above) => pct[1] * t = d * 100 * pct[2]

\* More was downloaded than the estimated total, the exact total being zero,
\* and the summary holds 100 percent.
C13_Witness ==
    /\ p_summary.done
    /\ p_status.total_bytes = << 0 >>
    /\ p_status.total_bytes_estimate = << 2 >>
    /\ p_status.downloaded_bytes = << 3 >>
    /\ p_summary.summary.percent = << 100, 1 >>

\* Run r has reported the outcome (FALSE, "Cancelled").
ReportedCancelled(r) ==
    \E k \in 1..Len(calls[r]) : calls[r][k] = CompleteItem(FALSE, << "Cancelled" >>)

\* A hook call of run r began with the flag set.
FlagSeen(r) == \E i \in HookCalls(r) : produced[r][i].flag

====
